---- MODULE Spec2Model ----
(***************************************************************************)
(* Model of BIOCLICK/app.py: the Flask handler run_blast behind            *)
(* POST /run_blast.  One request is handled at a time by a worker; the     *)
(* handler is modelled statement by statement (pc names the source line    *)
(* about to run).  The Remote Search Client (NCBIWWW.qblast and the handle *)
(* it returns) is the environment: each call either returns or raises.     *)
(*                                                                         *)
(* Requests are those the framework hands to the handler (bodies within    *)
(* MAX_CONTENT_LENGTH).  send_file is modelled with the keyword interface  *)
(* the source calls it with (attachment_filename).                         *)
(***************************************************************************)
EXTENDS Integers, Sequences, FiniteSets, TLC

VARIABLES
    request,        \* the request being handled: [files, form]
    pc,             \* position of the handler
    uploaded,       \* local: request.files['file'] (its bytes)
    blast_type,     \* local: request.form['blastType']
    sequence_data,  \* local: decoded text (sequence of code points)
    result_handle,  \* local: "none" | "open" | "closed"
    result_xml,     \* local: text read from the handle
    exc,            \* the exception caught at line 45 (its str())
    fileReads,      \* number of uploaded.read() calls in this request
    qblastCalls,    \* arguments of every NCBIWWW.qblast call in this request
    remote,         \* what the Remote Search Client did in this request
    responses       \* responses returned for this request

vars == <<request, pc, uploaded, blast_type, sequence_data, result_handle,
          result_xml, exc, fileReads, qblastCalls, remote, responses>>

----------------------------------------------------------------------------
(* Bounds of the model *)

\* an uploaded file is a concatenation of at most MaxChunks byte chunks
MaxChunks == 2
\* a result document has at most MaxDocLen characters
MaxDocLen == 2

----------------------------------------------------------------------------
(* Input alphabets *)

\* byte chunks: 'A', ' ', U+00E9, U+20AC, U+1F600, then ill-formed ones:
\* a stray 0xFF, a truncated 3-byte form, an overlong NUL, an encoded surrogate
Chunks ==
    { <<65>>, <<32>>, <<195, 169>>, <<226, 130, 172>>, <<240, 159, 152, 128>>,
      <<255>>, <<226, 130>>, <<192, 128>>, <<237, 160, 128>> }

RECURSIVE ChunkSeqs(_)
ChunkSeqs(n) ==
    IF n = 0 THEN { <<>> }
    ELSE LET shorter == ChunkSeqs(n - 1)
         IN  shorter \cup { s \o c : s \in shorter, c \in Chunks }

FileContents == ChunkSeqs(MaxChunks)

\* multipart part names a client may use for the upload, and form field names
FilePartNames == {"file", "sequence"}
FormFieldNames == {"blastType", "blasttype"}

BlastTypeValues ==
    {"blastn", "blastp", "blastx", "tblastn", "tblastx",
     "", "BLASTN", "blastn ", "megablast"}

\* request.files / request.form hold at most one part here
PartMaps(names, values) ==
    { [n \in {} |-> <<>>] } \cup
    UNION { { [n \in {name} |-> v] : v \in values } : name \in names }

Requests ==
    [files : PartMaps(FilePartNames, FileContents),
     form  : PartMaps(FormFieldNames, BlastTypeValues)]

\* characters of a result document: 'A', '<', U+00E9, U+20AC, U+1F600
DocChars == {65, 60, 233, 8364, 128512}

Docs == UNION { [1..n -> DocChars] : n \in 0..MaxDocLen }

----------------------------------------------------------------------------
(* bytes.decode("utf-8") and str.encode("utf-8"), as CPython computes them *)

IsContinuationByte(b) == b >= 128 /\ b <= 191

\* str() of an exception: either the plain message the exception was raised
\* with, or UnicodeDecodeError's rendering
\*   "'utf-8' codec can't decode byte 0x.. in position p: reason"
\*   "'utf-8' codec can't decode bytes in position p-q: reason"
PlainMessage(m) ==
    [form |-> "plain", text |-> m, byte |-> 0, first |-> 0, last |-> 0]

DecodeErrorMessage(bytes, start, end, reason) ==
    IF end = start + 1
    THEN [form |-> "'utf-8' codec can't decode byte", text |-> reason,
          byte |-> bytes[start + 1], first |-> start, last |-> start]
    ELSE [form |-> "'utf-8' codec can't decode bytes", text |-> reason,
          byte |-> 0, first |-> start, last |-> end - 1]

\* One step of the decoder at 1-based index s.  rc is "ok" for a decoded
\* character (cp, taking len bytes), "end" for truncated input, "start" for
\* an invalid start byte, and "cont" for an invalid continuation byte found
\* after k well-formed bytes.
Decoded(cp, len) == [rc |-> "ok", k |-> 0, cp |-> cp, len |-> len]
Failed(rc, k) == [rc |-> rc, k |-> k, cp |-> 0, len |-> 0]

DecodeAt(b, s) ==
    LET ch  == b[s]
        n   == Len(b) - s + 1
        ch2 == b[s + 1]
        ch3 == b[s + 2]
        ch4 == b[s + 3]
    IN
    IF ch < 128 THEN Decoded(ch, 1)
    ELSE IF ch < 224 THEN
        IF ch < 194 THEN Failed("start", 1)
        ELSE IF n < 2 THEN Failed("end", 0)
        ELSE IF ~IsContinuationByte(ch2) THEN Failed("cont", 1)
        ELSE Decoded((ch % 32) * 64 + (ch2 % 64), 2)
    ELSE IF ch < 240 THEN
        IF n < 2 THEN Failed("end", 0)
        ELSE IF \/ ~IsContinuationByte(ch2)
                \/ (ch = 224 /\ ch2 < 160)
                \/ (ch = 237 /\ ch2 >= 160)
             THEN Failed("cont", 1)
        ELSE IF n < 3 THEN Failed("end", 0)
        ELSE IF ~IsContinuationByte(ch3) THEN Failed("cont", 2)
        ELSE Decoded((ch % 16) * 4096 + (ch2 % 64) * 64 + (ch3 % 64), 3)
    ELSE IF ch < 245 THEN
        IF n < 2 THEN Failed("end", 0)
        ELSE IF \/ ~IsContinuationByte(ch2)
                \/ (ch = 240 /\ ch2 < 144)
                \/ (ch = 244 /\ ch2 >= 144)
             THEN Failed("cont", 1)
        ELSE IF n < 3 THEN Failed("end", 0)
        ELSE IF ~IsContinuationByte(ch3) THEN Failed("cont", 2)
        ELSE IF n < 4 THEN Failed("end", 0)
        ELSE IF ~IsContinuationByte(ch4) THEN Failed("cont", 3)
        ELSE Decoded((ch % 8) * 262144 + (ch2 % 64) * 4096
                        + (ch3 % 64) * 64 + (ch4 % 64), 4)
    ELSE Failed("start", 1)

RECURSIVE DecodeFrom(_, _, _)
DecodeFrom(b, s, acc) ==
    IF s > Len(b) THEN [ok |-> TRUE, text |-> acc, error |-> PlainMessage("")]
    ELSE LET r == DecodeAt(b, s)
         IN  CASE r.rc = "ok" -> DecodeFrom(b, s + r.len, Append(acc, r.cp))
               [] r.rc = "end" ->
                    [ok |-> FALSE, text |-> <<>>,
                     error |-> DecodeErrorMessage(b, s - 1, Len(b),
                                                  "unexpected end of data")]
               [] r.rc = "start" ->
                    [ok |-> FALSE, text |-> <<>>,
                     error |-> DecodeErrorMessage(b, s - 1, s,
                                                  "invalid start byte")]
               [] r.rc = "cont" ->
                    [ok |-> FALSE, text |-> <<>>,
                     error |-> DecodeErrorMessage(b, s - 1, s - 1 + r.k,
                                                  "invalid continuation byte")]

\* bytes.decode("utf-8"), strict: the text, or the UnicodeDecodeError raised
UTF8Decode(b) == DecodeFrom(b, 1, <<>>)

\* the UTF-8 form of one Unicode scalar value
EncodeChar(cp) ==
    IF cp < 128 THEN <<cp>>
    ELSE IF cp < 2048 THEN <<192 + (cp \div 64), 128 + (cp % 64)>>
    ELSE IF cp < 65536 THEN
        <<224 + (cp \div 4096), 128 + ((cp \div 64) % 64), 128 + (cp % 64)>>
    ELSE <<240 + (cp \div 262144), 128 + ((cp \div 4096) % 64),
           128 + ((cp \div 64) % 64), 128 + (cp % 64)>>

RECURSIVE UTF8Encode(_)
\* str.encode("utf-8") of a text without lone surrogates
UTF8Encode(text) ==
    IF text = <<>> THEN <<>>
    ELSE EncodeChar(Head(text)) \o UTF8Encode(Tail(text))

----------------------------------------------------------------------------
(* Flask helpers *)

\* jsonify(body), status
jsonify(body, status) ==
    [status |-> status, mimetype |-> "application/json", json |-> body,
     data |-> <<>>, as_attachment |-> FALSE, attachment_filename |-> ""]

\* send_file(io.BytesIO(data), as_attachment=..., attachment_filename=...,
\*           mimetype=...)
send_file(data, as_attachment, attachment_filename, mimetype) ==
    [status |-> 200, mimetype |-> mimetype, json |-> [k \in {} |-> <<>>],
     data |-> data, as_attachment |-> as_attachment,
     attachment_filename |-> attachment_filename]

\* variant: the last entry of the list is lost
SupportedTypes_Short == <<"blastn", "blastp", "blastx", "tblastn">>

\* the list of accepted search kinds
SupportedTypes == <<"blastn", "blastp", "blastx", "tblastn", "tblastx">>

IsSupported(t) == \E i \in 1..Len(SupportedTypes) : SupportedTypes[i] = t

----------------------------------------------------------------------------
(* The Remote Search Client: messages its failures carry *)

RemoteErrors == {"timeout", "HTTP Error 502: Bad Gateway"}

NoRemote == [outcome |-> "none", doc |-> <<>>, message |-> ""]

----------------------------------------------------------------------------
(* The server *)

NoParts == [n \in {} |-> <<>>]

Init ==
    /\ request = [files |-> NoParts, form |-> NoParts]
    /\ pc = "idle"
    /\ uploaded = <<>>
    /\ blast_type = ""
    /\ sequence_data = <<>>
    /\ result_handle = "none"
    /\ result_xml = <<>>
    /\ exc = PlainMessage("")
    /\ fileReads = 0
    /\ qblastCalls = <<>>
    /\ remote = NoRemote
    /\ responses = <<>>

\* the handler returns resp
Return(resp) ==
    /\ responses' = Append(responses, resp)
    /\ pc' = "done"

\* The worker takes a POST /run_blast request and enters run_blast with
\* fresh locals.  The handler reads and writes no state outside its locals,
\* so a behaviour follows one request from dispatch to its response.
Dispatch(r) ==
    /\ pc = "idle"
    /\ request' = r
    /\ pc' = "line16"
    /\ uploaded' = <<>>
    /\ blast_type' = ""
    /\ sequence_data' = <<>>
    /\ result_handle' = "none"
    /\ result_xml' = <<>>
    /\ exc' = PlainMessage("")
    /\ fileReads' = 0
    /\ qblastCalls' = <<>>
    /\ remote' = NoRemote
    /\ responses' = <<>>

\* variant: the two presence checks in the opposite order
CheckFile_TypeFirst ==
    /\ pc = "line16"
    /\ IF "blastType" \notin DOMAIN request.form
       THEN Return(jsonify([error |-> <<"Missing 'blastType' in form data">>],
                           400))
       ELSE IF "file" \notin DOMAIN request.files
       THEN Return(jsonify([error |-> <<"Missing 'file' in request">>], 400))
       ELSE pc' = "line18" /\ UNCHANGED responses
    /\ UNCHANGED <<request, uploaded, blast_type, sequence_data, result_handle,
                   result_xml, exc, fileReads, qblastCalls, remote>>

\* if 'file' not in request.files: return 400
CheckFile ==
    /\ pc = "line16"
    /\ IF "file" \notin DOMAIN request.files
       THEN Return(jsonify([error |-> <<"Missing 'file' in request">>], 400))
       ELSE pc' = "line18" /\ UNCHANGED responses
    /\ UNCHANGED <<request, uploaded, blast_type, sequence_data, result_handle,
                   result_xml, exc, fileReads, qblastCalls, remote>>

\* variant: the error text copied from the check above it
CheckBlastType_CopiedMessage ==
    /\ pc = "line18"
    /\ IF "blastType" \notin DOMAIN request.form
       THEN Return(jsonify([error |-> <<"Missing 'file' in request">>], 400))
       ELSE pc' = "line21" /\ UNCHANGED responses
    /\ UNCHANGED <<request, uploaded, blast_type, sequence_data, result_handle,
                   result_xml, exc, fileReads, qblastCalls, remote>>

\* if 'blastType' not in request.form: return 400
CheckBlastType ==
    /\ pc = "line18"
    /\ IF "blastType" \notin DOMAIN request.form
       THEN Return(jsonify([error |-> <<"Missing 'blastType' in form data">>],
                           400))
       ELSE pc' = "line21" /\ UNCHANGED responses
    /\ UNCHANGED <<request, uploaded, blast_type, sequence_data, result_handle,
                   result_xml, exc, fileReads, qblastCalls, remote>>

\* variant: the upload is read before the search kind is validated
CheckSupported_ReadsFirst ==
    /\ pc = "line21"
    /\ uploaded' = request.files["file"]
    /\ blast_type' = request.form["blastType"]
    /\ fileReads' = fileReads + 1
    /\ IF ~IsSupported(blast_type')
       THEN Return(jsonify([error |-> <<"Unsupported blastType '",
                                        blast_type', "'">>], 400))
       ELSE pc' = "line30" /\ UNCHANGED responses
    /\ UNCHANGED <<request, sequence_data, result_handle, result_xml, exc,
                   qblastCalls, remote>>

\* uploaded = request.files['file']; blast_type = request.form['blastType'];
\* if blast_type not in [...]: return 400
CheckSupported ==
    /\ pc = "line21"
    /\ uploaded' = request.files["file"]
    /\ blast_type' = request.form["blastType"]
    /\ IF ~IsSupported(blast_type')
       THEN Return(jsonify([error |-> <<"Unsupported blastType '",
                                        blast_type', "'">>], 400))
       ELSE pc' = "line30" /\ UNCHANGED responses
    /\ UNCHANGED <<request, sequence_data, result_handle, result_xml, exc,
                   fileReads, qblastCalls, remote>>

\* variant: decode(errors="ignore"), which never raises: on ill-formed input
\* the handler goes on to the remote call
ReadAndDecode_Lenient ==
    /\ pc = "line30"
    /\ fileReads' = fileReads + 1
    /\ LET d == UTF8Decode(uploaded)
       IN  sequence_data' = d.text
    /\ pc' = "line33"
    /\ UNCHANGED <<request, uploaded, blast_type, result_handle, result_xml,
                   exc, qblastCalls, remote, responses>>

\* sequence_data = uploaded.read().decode("utf-8")
ReadAndDecode ==
    /\ pc = "line30"
    /\ fileReads' = fileReads + 1
    /\ LET d == UTF8Decode(uploaded)
       IN  IF d.ok
           THEN sequence_data' = d.text /\ pc' = "line33" /\ UNCHANGED exc
           ELSE exc' = d.error /\ pc' = "line45" /\ UNCHANGED sequence_data
    /\ UNCHANGED <<request, uploaded, blast_type, result_handle, result_xml,
                   qblastCalls, remote, responses>>

\* variant: the database chosen by search kind (protein database for the
\* protein searches)
QblastReturns_DbByKind ==
    /\ pc = "line33"
    /\ qblastCalls' = Append(qblastCalls,
            <<blast_type,
              IF blast_type \in {"blastp", "blastx"} THEN "nr" ELSE "nt",
              sequence_data>>)
    /\ remote' = [remote EXCEPT !.outcome = "handle"]
    /\ result_handle' = "open"
    /\ pc' = "line34"
    /\ UNCHANGED <<request, uploaded, blast_type, sequence_data, result_xml,
                   exc, fileReads, responses>>

\* result_handle = NCBIWWW.qblast(blast_type, "nt", sequence_data): returns
QblastReturns ==
    /\ pc = "line33"
    /\ qblastCalls' = Append(qblastCalls, <<blast_type, "nt", sequence_data>>)
    /\ remote' = [remote EXCEPT !.outcome = "handle"]
    /\ result_handle' = "open"
    /\ pc' = "line34"
    /\ UNCHANGED <<request, uploaded, blast_type, sequence_data, result_xml,
                   exc, fileReads, responses>>

\* variant: a failed call is tried again
QblastRaises_Retry(m) ==
    /\ pc = "line33"
    /\ qblastCalls' = Append(qblastCalls, <<blast_type, "nt", sequence_data>>)
    /\ remote' = [remote EXCEPT !.outcome = "qblast raised", !.message = m]
    /\ exc' = PlainMessage(m)
    /\ pc' = IF Len(qblastCalls) = 0 THEN "line33" ELSE "line45"
    /\ UNCHANGED <<request, uploaded, blast_type, sequence_data, result_handle,
                   result_xml, fileReads, responses>>

\* NCBIWWW.qblast(blast_type, "nt", sequence_data): raises
QblastRaises(m) ==
    /\ pc = "line33"
    /\ qblastCalls' = Append(qblastCalls, <<blast_type, "nt", sequence_data>>)
    /\ remote' = [remote EXCEPT !.outcome = "qblast raised", !.message = m]
    /\ exc' = PlainMessage(m)
    /\ pc' = "line45"
    /\ UNCHANGED <<request, uploaded, blast_type, sequence_data, result_handle,
                   result_xml, fileReads, responses>>

\* result_xml = result_handle.read(): returns the document
HandleReadReturns(D) ==
    /\ pc = "line34"
    /\ remote' = [remote EXCEPT !.outcome = "document", !.doc = D]
    /\ result_xml' = D
    /\ pc' = "line35"
    /\ UNCHANGED <<request, uploaded, blast_type, sequence_data, result_handle,
                   exc, fileReads, qblastCalls, responses>>

\* result_handle.read(): raises; control leaves the try body for line 45
HandleReadRaises(m) ==
    /\ pc = "line34"
    /\ remote' = [remote EXCEPT !.outcome = "read raised", !.message = m]
    /\ exc' = PlainMessage(m)
    /\ pc' = "line45"
    /\ UNCHANGED <<request, uploaded, blast_type, sequence_data, result_handle,
                   result_xml, fileReads, qblastCalls, responses>>

\* result_handle.close()
CloseHandle ==
    /\ pc = "line35"
    /\ result_handle' = "closed"
    /\ pc' = "line38"
    /\ UNCHANGED <<request, uploaded, blast_type, sequence_data, result_xml,
                   exc, fileReads, qblastCalls, remote, responses>>

\* variant: the document sent inline, not as an attachment
SendResult_Inline ==
    /\ pc = "line38"
    /\ Return(send_file(UTF8Encode(result_xml), FALSE, "", "application/xml"))
    /\ UNCHANGED <<request, uploaded, blast_type, sequence_data, result_handle,
                   result_xml, exc, fileReads, qblastCalls, remote>>

\* return send_file(io.BytesIO(result_xml.encode("utf-8")), ...)
SendResult ==
    /\ pc = "line38"
    /\ Return(send_file(UTF8Encode(result_xml), TRUE, "blast_result.xml",
                        "application/xml"))
    /\ UNCHANGED <<request, uploaded, blast_type, sequence_data, result_handle,
                   result_xml, exc, fileReads, qblastCalls, remote>>

\* variant: the exception text left out of the error body
HandleException_NoDetails ==
    /\ pc = "line45"
    /\ Return(jsonify([error |-> <<"Remote BLAST failed">>], 500))
    /\ UNCHANGED <<request, uploaded, blast_type, sequence_data, result_handle,
                   result_xml, exc, fileReads, qblastCalls, remote>>

\* except Exception as e: return jsonify({...}), 500
HandleException ==
    /\ pc = "line45"
    /\ Return(jsonify([error |-> <<"Remote BLAST failed">>, details |-> exc],
                      500))
    /\ UNCHANGED <<request, uploaded, blast_type, sequence_data, result_handle,
                   result_xml, exc, fileReads, qblastCalls, remote>>

\* a request arrives: any request a client can send
Receive == pc = "idle" /\ \E r \in Requests : Dispatch(r)

\* the outcomes of the two Remote Search Client calls
QblastFails == pc = "line33" /\ \E m \in RemoteErrors : QblastRaises(m)
HandleRead == pc = "line34" /\ \E D \in Docs : HandleReadReturns(D)
HandleReadFails == pc = "line34" /\ \E m \in RemoteErrors : HandleReadRaises(m)

Next ==
    \/ Receive
    \/ CheckFile
    \/ CheckBlastType
    \/ CheckSupported
    \/ ReadAndDecode
    \/ QblastReturns
    \/ QblastFails
    \/ HandleRead
    \/ HandleReadFails
    \/ CloseHandle
    \/ SendResult
    \/ HandleException

Spec == Init /\ [][Next]_vars

----------------------------------------------------------------------------
(* Properties *)

Done == pc = "done"

HasFile == "file" \in DOMAIN request.files
HasBlastType == "blastType" \in DOMAIN request.form

\* the five search kinds the specification enumerates
FiveKinds == {"blastn", "blastp", "blastx", "tblastn", "tblastx"}

\* the handler has returned exactly one response, a JSON error body with
\* exactly the key "error"
OneJsonError(status, error) ==
    /\ Len(responses) = 1
    /\ responses[1].status = status
    /\ responses[1].mimetype = "application/json"
    /\ DOMAIN responses[1].json = {"error"}
    /\ responses[1].json.error = error

RemoteRaised == remote.outcome \in {"qblast raised", "read raised"}

\* C1: a request without a 'file' part is answered 400 with the missing-file
\* error, whether blastType is absent, unsupported or supported.
C1_MissingFile ==
    (Done /\ ~HasFile) => OneJsonError(400, <<"Missing 'file' in request">>)

\* a finished request with no 'file' part (the upload may sit under another
\* part name) and a supported blastType
C1_Witness ==
    /\ Done
    /\ ~HasFile
    /\ HasBlastType
    /\ request.form["blastType"] \in FiveKinds
    /\ responses[1].status = 400

\* C2 as stated: every request without a blastType field is answered 400 with
\* the error that names blastType as the missing field.
C2_Original ==
    (Done /\ ~HasBlastType)
        => OneJsonError(400, <<"Missing 'blastType' in form data">>)

\* C2 amended: a request that has a 'file' part and no blastType field is
\* answered 400 with the error that names blastType as the missing field.
C2_MissingBlastType ==
    (Done /\ HasFile /\ ~HasBlastType)
        => OneJsonError(400, <<"Missing 'blastType' in form data">>)

C2_Witness ==
    /\ Done
    /\ HasFile
    /\ ~HasBlastType
    /\ Len(request.files["file"]) > 0
    /\ responses[1].status = 400

\* C3: with 'file' and 'blastType' both present, the response is 400 exactly
\* when blastType is not one of the five kinds, and that 400 names the
\* submitted value; one of the five kinds is never answered 400.
C3_UnsupportedType ==
    (Done /\ HasFile /\ HasBlastType) =>
        LET t == request.form["blastType"]
        IN  /\ Len(responses) = 1
            /\ (responses[1].status = 400) <=> (t \notin FiveKinds)
            /\ (t \notin FiveKinds)
                   => OneJsonError(400, <<"Unsupported blastType '", t, "'">>)

\* a near miss of a supported kind (differing in case) is rejected
C3_Witness ==
    /\ Done
    /\ HasFile
    /\ HasBlastType
    /\ request.form["blastType"] = "BLASTN"
    /\ responses[1].status = 400

\* C4: when the Remote Search Client has returned document D, the response
\* is 200, its body is D in UTF-8 (decoding the body gives back D), its
\* content type is application/xml and it is an attachment named
\* blast_result.xml.
C4_Success ==
    (Done /\ remote.outcome = "document") =>
        /\ Len(responses) = 1
        /\ responses[1].status = 200
        /\ UTF8Decode(responses[1].data).ok
        /\ UTF8Decode(responses[1].data).text = remote.doc
        /\ responses[1].mimetype = "application/xml"
        /\ responses[1].as_attachment
        /\ responses[1].attachment_filename = "blast_result.xml"

\* a delivered document holding a character outside ASCII
C4_Witness ==
    /\ Done
    /\ remote.outcome = "document"
    /\ Len(remote.doc) = MaxDocLen
    /\ remote.doc[1] = 8364
    /\ responses[1].status = 200

\* C5: when qblast or the handle's read raises with message m, no 200 is
\* ever returned, and the one response is 500 with error "Remote BLAST
\* failed", details m and no result body.
C5_RemoteFailure ==
    RemoteRaised =>
        /\ \A i \in 1..Len(responses) : responses[i].status # 200
        /\ Done =>
            /\ Len(responses) = 1
            /\ responses[1].status = 500
            /\ responses[1].mimetype = "application/json"
            /\ DOMAIN responses[1].json = {"error", "details"}
            /\ responses[1].json.error = <<"Remote BLAST failed">>
            /\ responses[1].json.details = PlainMessage(remote.message)
            /\ responses[1].data = <<>>

\* the read of a handle that qblast did return fails with "timeout"
C5_Witness ==
    /\ Done
    /\ remote.outcome = "read raised"
    /\ remote.message = "timeout"
    /\ responses[1].status = 500

\* C6: whenever a 400 has been returned, the upload was never read and the
\* Remote Search Client was never invoked.
C6_NoWorkBefore400 ==
    (\E i \in 1..Len(responses) : responses[i].status = 400) =>
        /\ fileReads = 0
        /\ qblastCalls = <<>>
        /\ remote.outcome = "none"

\* a 400 for an unsupported kind, given with a non-empty upload
C6_Witness ==
    /\ Done
    /\ HasFile
    /\ HasBlastType
    /\ request.form["blastType"] = "megablast"
    /\ Len(request.files["file"]) > 0
    /\ responses[1].status = 400

\* C7: whenever qblast has returned a handle, the handle is closed by the
\* time the response is produced, also when reading it raised.
C7_HandleReleased ==
    (Len(responses) > 0 /\ remote.outcome \in {"handle", "document", "read raised"})
        => result_handle = "closed"

\* C8: a validated request whose upload is not valid UTF-8 is answered 500
\* with error "Remote BLAST failed" and details the decode error's text,
\* and the Remote Search Client is not invoked.
C8_DecodeFailure ==
    (/\ Done
     /\ HasFile
     /\ HasBlastType
     /\ request.form["blastType"] \in FiveKinds
     /\ ~UTF8Decode(request.files["file"]).ok) =>
        /\ Len(responses) = 1
        /\ responses[1].status = 500
        /\ DOMAIN responses[1].json = {"error", "details"}
        /\ responses[1].json.error = <<"Remote BLAST failed">>
        /\ responses[1].json.details = UTF8Decode(request.files["file"]).error
        /\ responses[1].json.details.form # "plain"
        /\ qblastCalls = <<>>
        /\ remote.outcome = "none"

\* an upload that starts well-formed and ends in a truncated character
C8_Witness ==
    /\ Done
    /\ HasFile
    /\ HasBlastType
    /\ request.form["blastType"] = "blastp"
    /\ request.files["file"] = <<65, 226, 130>>
    /\ responses[1].status = 500

\* C9: the Remote Search Client is invoked at most once per request, and
\* exactly once iff both fields are present, the kind is supported and the
\* decode succeeds; a remote failure is not followed by another call; the
\* handler always runs on to exactly one response, with status 200, 400 or
\* 500.
C9_NoRetry ==
    /\ Len(qblastCalls) <= 1
    /\ Len(responses) <= 1
    /\ RemoteRaised => Len(qblastCalls) = 1
    /\ (pc \notin {"idle", "done"}) => ENABLED Next
    /\ Done =>
        /\ Len(responses) = 1
        /\ responses[1].status \in {200, 400, 500}
        /\ (Len(qblastCalls) = 1) <=>
              /\ HasFile
              /\ HasBlastType
              /\ request.form["blastType"] \in FiveKinds
              /\ UTF8Decode(request.files["file"]).ok

\* a request whose single remote call failed
C9_Witness ==
    /\ Done
    /\ remote.outcome = "qblast raised"
    /\ Len(qblastCalls) = 1
    /\ responses[1].status = 500

\* C10: every qblast call is made with the request's blastType unchanged,
\* the database "nt", and the text whose UTF-8 form is the whole upload.
C10_CallArguments ==
    \A i \in 1..Len(qblastCalls) :
        /\ HasFile
        /\ HasBlastType
        /\ qblastCalls[i][1] = request.form["blastType"]
        /\ qblastCalls[i][2] = "nt"
        /\ UTF8Encode(qblastCalls[i][3]) = request.files["file"]

\* a protein search over an upload with a leading blank and a 3-byte
\* character
C10_Witness ==
    /\ Len(qblastCalls) = 1
    /\ request.form["blastType"] = "blastp"
    /\ request.files["file"] = <<32, 226, 130, 172>>
    /\ qblastCalls[1][3] = <<32, 8364>>

====
